---- MODULE Spec2Model ----
(***************************************************************************)
(* Model of the Elios4You device client (custom_components/4noks_elios4you *)
(* api.py): the E4Utelnet transport, the response decoder                  *)
(* telnet_get_data, and the two operations async_get_data and              *)
(* telnet_set_relay of Elios4YouAPI; and of the user step of the config    *)
(* flow (config_flow.py), which builds a client and fetches once.          *)
(*                                                                         *)
(* Both operations are coroutines without a single await, so each runs to  *)
(* completion on the event loop before anything else runs.  The model      *)
(* splits an operation into its I/O steps (pc) and lets no other operation *)
(* start before pc is back at "idle".                                      *)
(* SpecTasks looks at that alone: it runs the two operations as tasks of   *)
(* one event loop that changes task only where a coroutine awaits.         *)
(*                                                                         *)
(* Numbers are kept in thousandths (1 is 1000) so that round(x, 2) is a    *)
(* real rounding.  Text lines are kept as the list of their tokens and the *)
(* separator character that joins them.                                    *)
(***************************************************************************)
EXTENDS Integers, Sequences, FiniteSets, TLC

VARIABLES
    data,          \* Elios4YouAPI.data, the Reading Set: key -> value
    sock,          \* E4Uclient socket: "Closed" (get_socket() is None) or "Open"
    persistence,   \* Elios4YouAPI._persistence
    pc,            \* position inside the running operation; "done": it has ended and
                   \* its caller holds the result; "idle": no operation
    op,            \* the operation running: "none", "get_data", "set_relay"
    state,         \* argument of telnet_set_relay
    to_state,      \* local of telnet_set_relay (-1: not assigned)
    probe,         \* what connect_ex/shutdown did in check_port of this operation
    probe_sock,    \* the probe's socket: "none", "closed", "leaked"
    dat_parsed,    \* locals of async_get_data
    sta_parsed,
    inf_parsed,
    rel_parsed,    \* local of telnet_set_relay
    result,        \* how the operation ended: "none", "true", "false", "ConnectionError", "OSError"
    log,           \* the I/O events of the running or last operation, in order
    data0,         \* data when the operation was called
    fetched,       \* some async_get_data has returned True
    calls,         \* operations called so far
    trips,         \* what the transport did in each round trip of the running or
                   \* last operation, in order
    flow,          \* the config flow's user step: "none" (no flow), "testing" (inside
                   \* test_connection), "form" (form shown again), "entry" (config
                   \* entry created), "aborted", "raised" (an exception left the step)
    errors,        \* errors[CONF_HOST] of the user step ("" when not set)
    tasks,         \* the two operations as tasks of one event loop: where each is
    running,       \* the task the event loop is running, or "none"
    wire           \* what the tasks did on the shared connection, in order

vars == <<data, sock, persistence, pc, op, state, to_state, probe, probe_sock,
          dat_parsed, sta_parsed, inf_parsed, rel_parsed, result, log, data0, fetched,
          calls, trips, flow, errors, tasks, running, wire>>

----------------------------------------------------------------------------
(* Bounds of the model *)

\* operations (async_get_data, telnet_set_relay) called on one client
MaxCalls == 2

----------------------------------------------------------------------------
(* Values of the Reading Set *)

Num(n) == [t |-> "num", n |-> n, s |-> <<>>]

Str(s) == [t |-> "str", n |-> 0, s |-> <<s>>]

\* self.data after __init__ (api.py 113-164); "swver" is not among the keys.
\* MANUFACTURER and MODEL come from const.py and stand for themselves.
InitData ==
    LET NumKeys == {"produced_power", "consumed_power", "self_consumed_power",
                    "bought_power", "sold_power", "daily_peak", "monthly_peak",
                    "produced_energy", "produced_energy_f1", "produced_energy_f2",
                    "produced_energy_f3", "consumed_energy", "consumed_energy_f1",
                    "consumed_energy_f2", "consumed_energy_f3", "self_consumed_energy",
                    "self_consumed_energy_f1", "self_consumed_energy_f2",
                    "self_consumed_energy_f3", "bought_energy", "bought_energy_f1",
                    "bought_energy_f2", "bought_energy_f3", "sold_energy",
                    "sold_energy_f1", "sold_energy_f2", "sold_energy_f3",
                    "alarm_1", "alarm_2", "power_alarm", "relay_state", "pwm_mode",
                    "pr_ssv", "rel_ssv", "rel_mode", "rel_warning", "rcap"}
        StrKeys == {"utc_time", "fwtop", "fwbtm", "sn", "hwver", "btver", "hw_wifi",
                    "s2w_app_version", "s2w_geps_version", "s2w_wlan_version"}
    IN [k \in NumKeys \cup StrKeys \cup {"manufact", "model"} |->
          IF k \in NumKeys THEN Num(1000)
          ELSE IF k \in StrKeys THEN Str("")
          ELSE IF k = "manufact" THEN Str("MANUFACTURER") ELSE Str("MODEL")]

\* self.data[key] = value
DataSet(d, k, v) == [x \in DOMAIN d \cup {k} |-> IF x = k THEN v ELSE d[x]]

----------------------------------------------------------------------------
(* Python string functions, on the strings the model uses *)

\* str.lower()
Lower(s) ==
    CASE s = "ON" -> "on"
      [] s = "OFF" -> "off"
      [] s = "Toggle" -> "toggle"
      [] s = "@DAT" -> "@dat"
      [] s = "Produced Power" -> "produced power"
      [] s = "REL" -> "rel"
      [] s = "SN" -> "sn"
      [] OTHER -> s

\* str.replace(" ", "_")
ReplaceSpace(s) ==
    CASE s = "produced power" -> "produced_power"
      [] OTHER -> s

\* str.strip()
Strip(s) ==
    CASE s = " 2.5 " -> "2.5"
      [] s = " 1" -> "1"
      [] OTHER -> s

\* float(value): ok is FALSE where Python raises ValueError; v in thousandths
PyFloat(s) ==
    CASE s = "0" -> [ok |-> TRUE, v |-> 0]
      [] s = "1" -> [ok |-> TRUE, v |-> 1000]
      [] s = "2.5" -> [ok |-> TRUE, v |-> 2500]
      [] s = "3.456" -> [ok |-> TRUE, v |-> 3456]
      [] s = "0.994" -> [ok |-> TRUE, v |-> 994]
      [] OTHER -> [ok |-> FALSE, v |-> 0]

\* int(value): a decimal point is a ValueError; v in thousandths
PyInt(s) ==
    CASE s = "0" -> [ok |-> TRUE, v |-> 0]
      [] s = "1" -> [ok |-> TRUE, v |-> 1000]
      [] OTHER -> [ok |-> FALSE, v |-> 0]

\* round(x, 2) of x in thousandths: to the nearest hundredth, ties to even
Round2(x) ==
    LET q == x \div 10
        r == x % 10
    IN IF r < 5 THEN 10 * q
       ELSE IF r > 5 THEN 10 * (q + 1)
       ELSE IF q % 2 = 0 THEN 10 * q ELSE 10 * (q + 1)

\* ("energy" in key) or ("power" in key)
HasEnergyOrPower(k) ==
    k \in {"produced_power", "consumed_power", "self_consumed_power", "bought_power",
           "sold_power", "power_alarm",
           "produced_energy", "produced_energy_f1", "produced_energy_f2",
           "produced_energy_f3", "consumed_energy", "consumed_energy_f1",
           "consumed_energy_f2", "consumed_energy_f3", "self_consumed_energy",
           "self_consumed_energy_f1", "self_consumed_energy_f2",
           "self_consumed_energy_f3", "bought_energy", "bought_energy_f1",
           "bought_energy_f2", "bought_energy_f3", "sold_energy", "sold_energy_f1",
           "sold_energy_f2", "sold_energy_f3"}

\* cmd[0:4].lower()
CmdMain(cmd) ==
    CASE cmd = "@rel 0 0" -> "@rel"
      [] cmd = "@rel 0 1" -> "@rel"
      [] OTHER -> Lower(cmd)

----------------------------------------------------------------------------
(* dict: the pairs in insertion order *)

None == [none |-> TRUE, d |-> <<>>]

DictHas(d, k) == \E i \in 1..Len(d) : d[i][1] = k

DictGet(d, k) == d[CHOOSE i \in 1..Len(d) : d[i][1] = k][2]

\* output[key] = value: a key already there keeps its place
DictPut(d, k, v) ==
    IF DictHas(d, k)
    THEN [i \in 1..Len(d) |-> IF d[i][1] = k THEN <<k, v>> ELSE d[i]]
    ELSE Append(d, <<k, v>>)

----------------------------------------------------------------------------
(* Response text *)

\* A line of text: the tokens that a split on its separator character gives.
\* sep is ";", "=" or "" (the line holds neither character, one token).
Line(sep, toks) == [sep |-> sep, toks |-> toks]

Plain(text) == Line("", <<text>>)

\* line.split(c)
Split(line, c) == IF line.sep = c THEN line.toks ELSE <<line>>

\* lines[0].lower() in ["@dat", "@sta", "@inf", "@rel", "@hwr"]
IsMarker(line) ==
    /\ line.sep = ""
    /\ Lower(line.toks[1]) \in {"@dat", "@sta", "@inf", "@rel", "@hwr"}

\* One line of the loop body (api.py 349-356): the key and value the line
\* gives, ok FALSE where the unpacking raises ValueError.
SplitKV(cmd_main, line) ==
    IF cmd_main \in {"@inf", "@rel", "@hwr"}
    THEN LET p == Split(line, "=")
         IN IF Len(p) = 2 THEN [ok |-> TRUE, key |-> p[1], value |-> p[2]]
            ELSE [ok |-> FALSE, key |-> "", value |-> ""]
    ELSE LET p == Split(line, ";")
         IN IF Len(p) >= 3 THEN [ok |-> TRUE, key |-> p[2], value |-> p[3]]
            ELSE [ok |-> FALSE, key |-> "", value |-> ""]

\* The for loop of telnet_get_data over lines[lines_start:lines_end], from
\* line i on: the first line that does not unpack raises and ends the loop,
\* output keeps what was stored before it.
RECURSIVE ParseLines(_, _, _, _, _)
ParseLines(cmd_main, lines, i, last, output) ==
    IF i > last THEN output
    ELSE LET kv == SplitKV(cmd_main, lines[i])
         IN IF ~kv.ok THEN output
            ELSE ParseLines(cmd_main, lines, i + 1, last,
                            DictPut(output, ReplaceSpace(Lower(kv.key)), Strip(kv.value)))

\* The decoding of a non-empty response (api.py 336-357)
Decode(cmd_main, lines) ==
    LET lines_start == IF IsMarker(lines[1]) THEN 1 ELSE 2
    IN ParseLines(cmd_main, lines, lines_start + 1, Len(lines) - 2, <<>>)

----------------------------------------------------------------------------
(* What the device and the network do during one round trip *)

\* a response: the header lines, the body, an empty line and the terminator
Response(header, body) == header \o body \o <<Plain(""), Plain("ready...")>>

\* The texts read_until may return for a command.  <<>> is the empty text,
\* what a read gives when nothing arrived.
Responses(cmd_main) ==
    {<<>>} \cup
    IF cmd_main = "@dat"
    THEN {Response(<<Plain("@dat")>>,
                   <<Line(";", <<"01", "Produced Power", "3.456">>),
                     Line(";", <<"02", "sold_power", " 2.5 ">>)>>),
          Response(<<Plain("@dat")>>,
                   <<Line(";", <<"01", "Produced Power", "3.456">>),
                     Line(";", <<"02", "sold_power", "abc">>)>>),
          Response(<<Plain("@DAT")>>,
                   <<Line(";", <<"03", "alarm_1", "0">>),
                     Line(";", <<"04", "utc_time", "1700000000">>)>>),
          Response(<<Plain("@dat")>>,
                   <<Plain("garbage"),
                     Line(";", <<"03", "alarm_1", "0">>)>>),
          Response(<<Plain(""), Plain("@dat")>>,
                   <<Line(";", <<"05", "produced_energy_f1", "0.994">>)>>),
          Response(<<Plain("@dat")>>, <<>>)}
    ELSE IF cmd_main = "@sta"
    THEN {Response(<<Plain("@sta")>>,
                   <<Line(";", <<"01", "relay_state", "0">>),
                     Line(";", <<"02", "sold_energy_f1", "2.5">>)>>),
          Response(<<Plain("@sta")>>,
                   <<Line(";", <<"03", "rcap", "">>)>>)}
    ELSE IF cmd_main = "@inf"
    THEN {Response(<<Plain("@inf")>>,
                   <<Line("=", <<"SN", "E4U0001">>),
                     Line("=", <<"fwtop", "1.0">>)>>),
          Response(<<Plain("@inf")>>,
                   <<Line("=", <<"a", "b", "c">>)>>)}
    ELSE {Response(<<Plain("@rel")>>,
                   <<Line("=", <<"REL", "1">>), Line("=", <<"mode", "1">>)>>),
          Response(<<Plain("@rel")>>, <<Line("=", <<"rel", "0">>)>>),
          Response(<<Plain("@rel")>>, <<Line("=", <<"rel", "abc">>)>>),
          Response(<<Plain("@rel")>>, <<Line("=", <<"mode", "1">>)>>),
          Response(<<Plain("@rel")>>, <<Plain("garbage"), Line("=", <<"rel", "1">>)>>)}

\* One round trip of the transport: whether write() succeeds, and what
\* read_until() does ("text": it returns text, "timeout": it raises
\* TimeoutError, "error": it raises another exception).  On a connection that
\* is not open the write raises.
RoundTrips(cmd_main) ==
    {[w |-> FALSE, r |-> "none", text |-> <<>>]}
    \cup IF sock = "Open"
         THEN {[w |-> TRUE, r |-> k, text |-> <<>>] : k \in {"timeout", "error"}}
              \cup {[w |-> TRUE, r |-> "text", text |-> t] : t \in Responses(cmd_main)}
         ELSE {}

\* an entry of the I/O log
Event(ev, cmd, out) == [ev |-> ev, cmd |-> cmd, out |-> out, open |-> sock = "Open"]

\* telnet_get_data sending the command a second time after a read timeout
telnet_get_data_retry(cmd, io) ==
    LET wr == Event("write", cmd, IF io.w THEN "ok" ELSE "error")
    IN IF ~io.w
       THEN [none |-> TRUE, d |-> <<>>, events |-> <<wr>>]
       ELSE IF io.r = "timeout"
       THEN [none |-> FALSE, d |-> <<>>,
             events |-> <<wr, Event("read", cmd, io.r), wr, Event("read", cmd, io.r)>>]
       ELSE IF io.r # "text"
       THEN [none |-> FALSE, d |-> <<>>, events |-> <<wr, Event("read", cmd, io.r)>>]
       ELSE IF io.text = <<>>
       THEN [none |-> FALSE, d |-> <<>>, events |-> <<wr, Event("read", cmd, "empty")>>]
       ELSE [none |-> FALSE, d |-> Decode(CmdMain(cmd), io.text),
             events |-> <<wr, Event("read", cmd, "text")>>]

\* telnet_get_data(cmd) under the round trip io: the value returned (None or
\* a dict) and the I/O events.  No exception leaves it (finally: return).
telnet_get_data(cmd, io) ==
    LET cmd_main == CmdMain(cmd)
        wr == Event("write", cmd, IF io.w THEN "ok" ELSE "error")
    IN IF ~io.w
       THEN \* write raised before response was assigned: response is None
            [none |-> TRUE, d |-> <<>>, events |-> <<wr>>]
       ELSE IF io.r # "text"
       THEN \* read_until raised: response is "", output is {}
            [none |-> FALSE, d |-> <<>>, events |-> <<wr, Event("read", cmd, io.r)>>]
       ELSE IF io.text = <<>>
       THEN [none |-> FALSE, d |-> <<>>, events |-> <<wr, Event("read", cmd, "empty")>>]
       ELSE [none |-> FALSE, d |-> Decode(cmd_main, io.text),
             events |-> <<wr, Event("read", cmd, "text")>>]

----------------------------------------------------------------------------
(* E4Utelnet: the transport *)

\* E4Uclose without the persistence test: an open socket is always closed
E4UcloseIgnoresPersistence(s, p) ==
    IF s = "Open" THEN [resp |-> "closed", sock |-> "Closed"]
    ELSE [resp |-> "already_closed", sock |-> "Closed"]

\* E4Utelnet.close(persistence): the string returned and the socket after it
E4Uclose(s, p) ==
    IF s = "Open"
    THEN IF ~p THEN [resp |-> "closed", sock |-> "Closed"]
         ELSE [resp |-> "persistence", sock |-> "Open"]
    ELSE [resp |-> "already_closed", sock |-> "Closed"]

\* E4Utelnet.connection(action, ...): the socket after it and whether it
\* raised.  opens tells whether Telnet.open() succeeds when it is called.
connection(action, s, p, opens) ==
    LET c == E4Uclose(s, p)
    IN IF Lower(action) = "open"
       THEN IF c.resp \in {"closed", "already_closed"}
            THEN [sock |-> IF opens THEN "Open" ELSE "Closed", raised |-> ~opens,
                  resp |-> c.resp]
            ELSE [sock |-> c.sock, raised |-> FALSE, resp |-> c.resp]
       ELSE IF Lower(action) = "close"
       THEN [sock |-> c.sock, raised |-> FALSE, resp |-> c.resp]
       ELSE [sock |-> s, raised |-> FALSE, resp |-> "none"]

----------------------------------------------------------------------------
(* Elios4YouAPI *)

\* check_port() when connect_ex and shutdown do what `outcome` says:
\* "refused" (connect_ex returns an error number), "accepted", or
\* "shutdown_error" (connect_ex returns 0 and sock.shutdown raises OSError,
\* which leaves check_port before sock.close()).
check_port(outcome) ==
    [is_open |-> outcome # "refused",
     raised |-> outcome = "shutdown_error",
     probe_sock |-> IF outcome = "shutdown_error" THEN "leaked" ELSE "closed"]

ProbeOutcomes == {"refused", "accepted", "shutdown_error"}

\* MergeDat without the utc_time branch: the value is stored as it came
RECURSIVE MergeDatStoresUtcTime(_, _, _)
MergeDatStoresUtcTime(d, items, i) ==
    IF i > Len(items) THEN [data |-> d, exc |-> FALSE]
    ELSE LET key == items[i][1]
             value == items[i][2]
         IN IF HasEnergyOrPower(key)
            THEN IF PyFloat(value).ok
                 THEN MergeDatStoresUtcTime(DataSet(d, key, Num(Round2(PyFloat(value).v))),
                                            items, i + 1)
                 ELSE [data |-> d, exc |-> TRUE]
            ELSE IF key = "utc_time"
            THEN MergeDatStoresUtcTime(DataSet(d, key, Str(value)), items, i + 1)
            ELSE IF PyInt(value).ok
                 THEN MergeDatStoresUtcTime(DataSet(d, key, Num(PyInt(value).v)),
                                            items, i + 1)
                 ELSE [data |-> d, exc |-> TRUE]

\* One pass of the loop over dat_parsed.items() (api.py 220-229), from item i
\* on: exc is TRUE where float() or int() raises, with the items before it
\* already stored.
RECURSIVE MergeDat(_, _, _)
MergeDat(d, items, i) ==
    IF i > Len(items) THEN [data |-> d, exc |-> FALSE]
    ELSE LET key == items[i][1]
             value == items[i][2]
         IN IF HasEnergyOrPower(key)
            THEN IF PyFloat(value).ok
                 THEN MergeDat(DataSet(d, key, Num(Round2(PyFloat(value).v))), items, i + 1)
                 ELSE [data |-> d, exc |-> TRUE]
            ELSE IF key = "utc_time"
            THEN MergeDat(d, items, i + 1)
            ELSE IF PyInt(value).ok
                 THEN MergeDat(DataSet(d, key, Num(PyInt(value).v)), items, i + 1)
                 ELSE [data |-> d, exc |-> TRUE]

\* MergeSta adding the value to the stored one where it should replace it
RECURSIVE MergeStaAdds(_, _, _)
MergeStaAdds(d, items, i) ==
    IF i > Len(items) THEN [data |-> d, exc |-> FALSE]
    ELSE IF PyFloat(items[i][2]).ok
         THEN MergeStaAdds(DataSet(d, items[i][1],
                                   Num(d[items[i][1]].n + Round2(PyFloat(items[i][2]).v))),
                           items, i + 1)
         ELSE [data |-> d, exc |-> TRUE]

\* The loop over sta_parsed.items() (api.py 236-238)
RECURSIVE MergeSta(_, _, _)
MergeSta(d, items, i) ==
    IF i > Len(items) THEN [data |-> d, exc |-> FALSE]
    ELSE IF PyFloat(items[i][2]).ok
         THEN MergeSta(DataSet(d, items[i][1], Num(Round2(PyFloat(items[i][2]).v))),
                       items, i + 1)
         ELSE [data |-> d, exc |-> TRUE]

\* The loop over inf_parsed.items() (api.py 245-247)
RECURSIVE MergeInf(_, _, _)
MergeInf(d, items, i) ==
    IF i > Len(items) THEN [data |-> d, exc |-> FALSE]
    ELSE MergeInf(DataSet(d, items[i][1], Str(items[i][2])), items, i + 1)

\* The guard of the @sta and @inf merges is dat_parsed (api.py 234, 243);
\* parsed.items() on None raises AttributeError.
GuardedMerge(d, guard, parsed, merged) ==
    IF guard.none THEN [data |-> d, exc |-> FALSE]
    ELSE IF parsed.none THEN [data |-> d, exc |-> TRUE]
    ELSE merged

\* f"{value}"
Format(v) == IF v.t = "str" THEN v.s ELSE <<ToString(v.n)>>

\* The calculated self-consumption sensors, in the order of api.py 255-274
SelfConsumed ==
    << <<"self_consumed_power", "produced_power", "sold_power">>,
       <<"self_consumed_energy", "produced_energy", "sold_energy">>,
       <<"self_consumed_energy_f1", "produced_energy_f1", "sold_energy_f1">>,
       <<"self_consumed_energy_f2", "produced_energy_f2", "sold_energy_f2">>,
       <<"self_consumed_energy_f3", "produced_energy_f3", "sold_energy_f3">> >>

\* exc is TRUE where the subtraction raises TypeError (a string operand)
RECURSIVE CalcSelfConsumed(_, _)
CalcSelfConsumed(d, i) ==
    IF i > Len(SelfConsumed) THEN [data |-> d, exc |-> FALSE]
    ELSE LET c == SelfConsumed[i]
         IN IF d[c[2]].t = "num" /\ d[c[3]].t = "num"
            THEN CalcSelfConsumed(DataSet(d, c[1], Num(Round2(d[c[2]].n - d[c[3]].n))),
                                  i + 1)
            ELSE [data |-> d, exc |-> TRUE]

\* Calculated with the energy sensors forgotten: only the power is recomputed
CalculatedPowerOnly(d) ==
    [data |-> DataSet(d, "self_consumed_power",
                      Num(Round2(d["produced_power"].n - d["sold_power"].n))),
     exc |-> FALSE]

\* api.py 251-274: swver, then the self-consumption sensors
Calculated(d) ==
    CalcSelfConsumed(
        DataSet(d, "swver",
                [t |-> "str", n |-> 0,
                 s |-> Format(d["fwtop"]) \o <<" / ">> \o Format(d["fwbtm"])]),
        1)

\* GetUnreachable as telnet_set_relay has it: no raise, the failure is returned
GetUnreachableReturnsFalse == "false"

\* what async_get_data does when check_port() is False (api.py 289-293)
GetUnreachable == "ConnectionError"

\* what telnet_set_relay does when check_port() is False (api.py 427-431)
RelUnreachable == "false"

Bool(b) == IF b THEN "true" ELSE "false"

\* The @dat round trip io and its merge into d (api.py 217-231)
DatStep(d, io) ==
    LET r == telnet_get_data("@dat", io)
        m == IF r.none THEN [data |-> d, exc |-> FALSE]
             ELSE MergeDat(d, r.d, 1)
    IN [parsed |-> [none |-> r.none, d |-> r.d], data |-> m.data, exc |-> m.exc,
        events |-> r.events]

\* The @sta round trip io and its merge into d (api.py 233-240)
StaStep(d, guard, io) ==
    LET r == telnet_get_data("@sta", io)
        m == GuardedMerge(d, guard, r, MergeSta(d, r.d, 1))
    IN [parsed |-> [none |-> r.none, d |-> r.d], data |-> m.data, exc |-> m.exc,
        events |-> r.events]

\* The @inf round trip io, its merge into d and the calculated sensors
\* (api.py 242-275)
InfStep(d, guard, io) ==
    LET r == telnet_get_data("@inf", io)
        m == GuardedMerge(d, guard, r, MergeInf(d, r.d, 1))
        k == IF m.exc THEN m ELSE Calculated(m.data)
    IN [parsed |-> [none |-> r.none, d |-> r.d], data |-> k.data, exc |-> k.exc,
        events |-> r.events]

\* async_get_data as a whole, called on the Reading Set d with the socket s
\* and persistence p, when the probe does what outcome says and the round
\* trips are ios in order: the Reading Set, the result and the socket it
\* leaves (api.py 199-296)
Fetch(d, s, p, outcome, ios) ==
    LET cp == check_port(outcome)
        c == connection("close", s, p, FALSE)
        closed == connection("close", c.sock, p, FALSE).sock
    IN IF cp.raised THEN [data |-> d, result |-> "OSError", sock |-> s]
       ELSE IF ~cp.is_open THEN [data |-> d, result |-> GetUnreachable, sock |-> s]
       ELSE LET a == DatStep(d, ios[1])
            IN IF a.exc THEN [data |-> a.data, result |-> "false", sock |-> closed]
               ELSE LET b == StaStep(a.data, a.parsed, ios[2])
                    IN IF b.exc
                       THEN [data |-> b.data, result |-> "false", sock |-> closed]
                       ELSE LET k == InfStep(b.data, a.parsed, ios[3])
                            IN [data |-> k.data, result |-> Bool(~k.exc),
                                sock |-> closed]

Init ==
    /\ data = InitData
    /\ sock = "Closed"
    /\ persistence \in BOOLEAN
    /\ pc = "idle"
    /\ op = "none"
    /\ state = ""
    /\ to_state = -1
    /\ probe = "none"
    /\ probe_sock = "none"
    /\ dat_parsed = None
    /\ sta_parsed = None
    /\ inf_parsed = None
    /\ rel_parsed = None
    /\ result = "none"
    /\ log = <<>>
    /\ data0 = InitData
    /\ fetched = FALSE
    /\ calls = 0
    /\ trips = <<>>
    /\ flow = "none"
    /\ errors = ""
    /\ tasks = [t \in {"get_data", "set_relay"} |-> [at |-> "new", i |-> 0]]
    /\ running = "none"
    /\ wire = <<>>

\* the state of a call that has just begun
Enter(name, st, outcome) ==
    /\ op' = name
    /\ state' = st
    /\ probe' = outcome
    /\ probe_sock' = check_port(outcome).probe_sock
    /\ dat_parsed' = None
    /\ sta_parsed' = None
    /\ inf_parsed' = None
    /\ rel_parsed' = None
    /\ data0' = data
    /\ calls' = calls + 1
    /\ trips' = <<>>

\* the operation ends with result r
Return(r) ==
    /\ pc' = "done"
    /\ result' = r

\* the finally clause: connection("close", ...) (api.py 284-288, 421-425)
Finally(events) ==
    LET c == connection("close", sock, persistence, FALSE)
    IN /\ sock' = c.sock
       /\ log' = log \o events \o <<Event("close", "", c.resp)>>

\* A caller opens the transport: E4Uclient.connection("open", ...)
ConnectionOpen ==
    /\ pc = "idle"
    /\ flow = "none"
    /\ \E opens \in BOOLEAN :
         sock' = connection("open", sock, persistence, opens).sock
    /\ UNCHANGED <<data, persistence, pc, op, state, to_state, probe, probe_sock,
                   dat_parsed, sta_parsed, inf_parsed, rel_parsed, result, log,
                   data0, fetched, calls, trips>>
    /\ UNCHANGED <<flow, errors>>
    /\ UNCHANGED <<tasks, running, wire>>

\* The caller has taken the result (or the exception) of the operation: the
\* coroutine's frame is gone, the client is ready for the next call.
Returned ==
    /\ pc = "done"
    /\ flow # "testing"
    /\ pc' = "idle"
    /\ op' = "none"
    /\ state' = ""
    /\ to_state' = -1
    /\ probe' = "none"
    /\ probe_sock' = "none"
    /\ dat_parsed' = None
    /\ sta_parsed' = None
    /\ inf_parsed' = None
    /\ rel_parsed' = None
    /\ result' = "none"
    /\ log' = <<>>
    /\ data0' = data
    /\ trips' = <<>>
    /\ UNCHANGED <<data, sock, persistence, fetched, calls>>
    /\ UNCHANGED <<flow, errors>>
    /\ UNCHANGED <<tasks, running, wire>>

\* async_get_data up to the first command: check_port, then, inside the try,
\* connection("close", ...) (api.py 199-210)
async_get_data ==
    /\ pc = "idle"
    /\ calls < MaxCalls
    /\ flow \in {"none", "testing"}
    /\ \E outcome \in ProbeOutcomes :
         LET p == check_port(outcome)
             c == connection("close", sock, persistence, FALSE)
         IN /\ Enter("get_data", "", outcome)
            /\ IF p.raised
               THEN /\ Return("OSError")
                    /\ log' = <<Event("probe", "", outcome)>>
                    /\ sock' = sock
               ELSE IF ~p.is_open
               THEN /\ Return(GetUnreachable)
                    /\ log' = <<Event("probe", "", outcome)>>
                    /\ sock' = sock
               ELSE /\ pc' = "get_dat"
                    /\ result' = "none"
                    /\ log' = <<Event("probe", "", outcome), Event("close", "", c.resp)>>
                    /\ sock' = c.sock
    /\ UNCHANGED <<data, persistence, to_state, fetched>>
    /\ UNCHANGED <<flow, errors>>
    /\ UNCHANGED <<tasks, running, wire>>

\* the @dat round trip and its merge (api.py 217-231)
get_dat ==
    /\ pc = "get_dat"
    /\ \E io \in RoundTrips("@dat") :
         LET r == DatStep(data, io)
         IN /\ dat_parsed' = r.parsed
            /\ data' = r.data
            /\ trips' = Append(trips, io)
            /\ IF r.exc
               THEN Return("false") /\ Finally(r.events)
               ELSE /\ pc' = "get_sta"
                    /\ log' = log \o r.events
                    /\ UNCHANGED <<result, sock>>
    /\ UNCHANGED <<calls, fetched, persistence, op, state, to_state, probe, probe_sock,
                   sta_parsed, inf_parsed, rel_parsed, data0>>
    /\ UNCHANGED <<flow, errors>>
    /\ UNCHANGED <<tasks, running, wire>>

\* the @sta round trip and its merge (api.py 233-240)
get_sta ==
    /\ pc = "get_sta"
    /\ \E io \in RoundTrips("@sta") :
         LET r == StaStep(data, dat_parsed, io)
         IN /\ sta_parsed' = r.parsed
            /\ data' = r.data
            /\ trips' = Append(trips, io)
            /\ IF r.exc
               THEN Return("false") /\ Finally(r.events)
               ELSE /\ pc' = "get_inf"
                    /\ log' = log \o r.events
                    /\ UNCHANGED <<result, sock>>
    /\ UNCHANGED <<calls, fetched, persistence, op, state, to_state, probe, probe_sock,
                   dat_parsed, inf_parsed, rel_parsed, data0>>
    /\ UNCHANGED <<flow, errors>>
    /\ UNCHANGED <<tasks, running, wire>>

\* the @inf round trip and its merge, the calculated sensors, and the end of
\* async_get_data (api.py 242-296)
get_inf ==
    /\ pc = "get_inf"
    /\ \E io \in RoundTrips("@inf") :
         LET r == InfStep(data, dat_parsed, io)
         IN /\ inf_parsed' = r.parsed
            /\ data' = r.data
            /\ trips' = Append(trips, io)
            /\ Return(Bool(~r.exc))
            /\ fetched' = (fetched \/ ~r.exc)
            /\ Finally(r.events)
    /\ UNCHANGED <<persistence, op, state, to_state, probe, probe_sock,
                   dat_parsed, sta_parsed, rel_parsed, data0, calls>>
    /\ UNCHANGED <<flow, errors>>
    /\ UNCHANGED <<tasks, running, wire>>

\* the states a caller passes to telnet_set_relay
RelayStates == {"on", "ON", "off", "OFF", "Toggle", ""}

\* telnet_set_relay up to the first command: check_port, the mapping of state
\* to to_state, then connection("close", ...) (api.py 369-388)
telnet_set_relay ==
    /\ pc = "idle"
    /\ calls < MaxCalls
    /\ flow = "none"
    /\ \E st \in RelayStates, outcome \in ProbeOutcomes :
         LET p == check_port(outcome)
             c == connection("close", sock, persistence, FALSE)
         IN /\ Enter("set_relay", st, outcome)
            /\ IF p.raised
               THEN /\ Return("OSError")
                    /\ log' = <<Event("probe", "", outcome)>>
                    /\ UNCHANGED <<sock, to_state>>
               ELSE IF ~p.is_open
               THEN /\ Return(RelUnreachable)
                    /\ log' = <<Event("probe", "", outcome)>>
                    /\ UNCHANGED <<sock, to_state>>
               ELSE IF Lower(st) \notin {"on", "off"}
               THEN /\ Return("false")
                    /\ log' = <<Event("probe", "", outcome)>>
                    /\ UNCHANGED <<sock, to_state>>
               ELSE /\ pc' = "rel_set"
                    /\ to_state' = IF Lower(st) = "on" THEN 1 ELSE 0
                    /\ result' = "none"
                    /\ log' = <<Event("probe", "", outcome), Event("close", "", c.resp)>>
                    /\ sock' = c.sock
    /\ UNCHANGED <<data, persistence, fetched>>
    /\ UNCHANGED <<flow, errors>>
    /\ UNCHANGED <<tasks, running, wire>>

\* the command that sets the relay (api.py 390)
rel_set ==
    /\ pc = "rel_set"
    /\ \E io \in RoundTrips("@rel") :
         LET r == telnet_get_data(IF to_state = 1 THEN "@rel 0 1" ELSE "@rel 0 0", io)
         IN /\ rel_parsed' = [none |-> r.none, d |-> r.d]
            /\ log' = log \o r.events
            /\ trips' = Append(trips, io)
    /\ pc' = "rel_read"
    /\ UNCHANGED <<data, sock, persistence, op, state, to_state, probe, probe_sock,
                   dat_parsed, sta_parsed, inf_parsed, result, data0, fetched, calls>>
    /\ UNCHANGED <<flow, errors>>
    /\ UNCHANGED <<tasks, running, wire>>

\* RelCompare without the comparison of out_mode to to_state
RelCompareAnyRel(parsed, target) ==
    /\ ~parsed.none
    /\ parsed.d # <<>>
    /\ DictHas(parsed.d, "rel")
    /\ PyInt(DictGet(parsed.d, "rel")).ok

\* api.py 393-412 on the read-back rel_parsed: the value of set_relay.
\* A dict without "rel" (KeyError) or with a rel that is no integer
\* (ValueError) ends in the except clause, set_relay False.
RelCompare(parsed, target) ==
    /\ ~parsed.none
    /\ parsed.d # <<>>
    /\ DictHas(parsed.d, "rel")
    /\ PyInt(DictGet(parsed.d, "rel")).ok
    /\ PyInt(DictGet(parsed.d, "rel")).v = 1000 * target

\* the read-back, the comparison and the end of telnet_set_relay (api.py 391-434)
rel_read ==
    /\ pc = "rel_read"
    /\ \E io \in RoundTrips("@rel") :
         LET r == telnet_get_data("@rel", io)
             parsed == [none |-> r.none, d |-> r.d]
         IN /\ rel_parsed' = parsed
            /\ trips' = Append(trips, io)
            /\ Return(Bool(RelCompare(parsed, to_state)))
            /\ Finally(r.events)
    /\ UNCHANGED <<data, persistence, op, state, to_state, probe, probe_sock,
                   dat_parsed, sta_parsed, inf_parsed, data0, fetched, calls>>
    /\ UNCHANGED <<flow, errors>>
    /\ UNCHANGED <<tasks, running, wire>>

----------------------------------------------------------------------------
(* The config flow's user step (config_flow.py) *)

\* hosts a user enters in the form
Hosts == {"192.168.1.10", "fe80::1", "elios4you", "no host"}

\* host_valid(host): ip_address(host).version == (4 or 6) compares with 4, so
\* an IPv6 address gives None; a name is valid when its labels hold letters,
\* digits and hyphens only
host_valid(host) == host \in {"192.168.1.10", "elios4you"}

\* the class of the exception an operation ended with: ConnectionError is
\* the class api.py defines
RaisedClass(r) == IF r = "ConnectionError" THEN "api.ConnectionError" ELSE r

\* the class the except clause of test_connection names: config_flow.py has
\* a ConnectionError class of its own and does not import the one of api.py
ExceptClass == "config_flow.ConnectionError"

\* test_connection once async_get_data has ended with r on the Reading Set d:
\* the serial number, False, or the exception passing through
test_connection(r, d) ==
    IF r \in {"true", "false"} THEN [kind |-> "uid", uid |-> d["sn"]]
    ELSE IF RaisedClass(r) = ExceptClass THEN [kind |-> "False", uid |-> Str("")]
    ELSE [kind |-> "raised", uid |-> Str("")]

\* async_step_user with user input, up to the await of async_get_data:
\* the two host checks, then test_connection builds a client of its own,
\* with scan_interval (30 or more) where the constructor takes persistence
async_step_user ==
    /\ pc = "idle"
    /\ flow \in {"none", "form"}
    /\ calls = 0
    /\ sock = "Closed"
    /\ \E host \in Hosts, exists \in BOOLEAN :
         IF exists
         THEN /\ flow' = "form"
              /\ errors' = "Device Already Configured"
              /\ UNCHANGED persistence
         ELSE IF ~host_valid(host)
         THEN /\ flow' = "form"
              /\ errors' = "invalid Host IP"
              /\ UNCHANGED persistence
         ELSE /\ flow' = "testing"
              /\ errors' = ""
              /\ persistence' = TRUE
    /\ UNCHANGED <<data, sock, pc, op, state, to_state, probe, probe_sock,
                   dat_parsed, sta_parsed, inf_parsed, rel_parsed, result, log,
                   data0, fetched, calls, trips>>
    /\ UNCHANGED <<tasks, running, wire>>

\* the rest of the user step once async_get_data has ended: uid is what
\* test_connection gives, and any uid that is not False creates the entry
\* unless the unique id is configured already
step_user_result ==
    /\ pc = "done"
    /\ flow = "testing"
    /\ \E configured \in BOOLEAN :
         LET t == test_connection(result, data)
         IN IF t.kind = "raised"
            THEN flow' = "raised" /\ errors' = errors
            ELSE IF t.kind = "uid"
            THEN /\ flow' = IF configured THEN "aborted" ELSE "entry"
                 /\ errors' = errors
            ELSE /\ flow' = "form"
                 /\ errors' = "Connection to device failed (S/N not retreived)"
    /\ UNCHANGED <<data, sock, persistence, pc, op, state, to_state, probe, probe_sock,
                   dat_parsed, sta_parsed, inf_parsed, rel_parsed, result, log,
                   data0, fetched, calls, trips>>
    /\ UNCHANGED <<tasks, running, wire>>

Next ==
    \/ async_step_user
    \/ step_user_result
    \/ ConnectionOpen
    \/ async_get_data
    \/ get_dat
    \/ get_sta
    \/ get_inf
    \/ telnet_set_relay
    \/ rel_set
    \/ rel_read
    \/ Returned

Spec == Init /\ [][Next]_vars

----------------------------------------------------------------------------
(* async_get_data and telnet_set_relay as two tasks of one event loop *)

Tasks == {"get_data", "set_relay"}

\* the commands of a task, in program order (api.py 217, 233, 242; 390, 391)
Commands(t) ==
    IF t = "get_data" THEN <<"@dat", "@sta", "@inf">> ELSE <<"@rel 0 1", "@rel">>

\* The positions at which a coroutine hands control back to the event loop
\* before it has ended.  Neither async_get_data nor telnet_set_relay holds
\* an await expression, and check_port, connection and telnet_get_data are
\* plain blocking calls: there is no such position.
AwaitPointsAtRead == {"read"}

AwaitPoints == {}

\* what the tasks leave alone
clientvars ==
    <<data, persistence, pc, op, state, to_state, probe, probe_sock, dat_parsed,
      sta_parsed, inf_parsed, rel_parsed, result, log, data0, fetched, calls, trips,
      flow, errors>>

\* task t goes on to position at, command i: it keeps the event loop unless
\* it has ended or the position is one where it awaits
MoveTo(t, at, i) ==
    /\ tasks' = [tasks EXCEPT ![t] = [at |-> at, i |-> i]]
    /\ running' = IF at = "ended" \/ at \in AwaitPoints THEN "none" ELSE t

\* after command i of task t: the next command, or the finally clause
AfterCommand(t, i) ==
    IF i < Len(Commands(t)) THEN MoveTo(t, "send", i + 1) ELSE MoveTo(t, "final", 0)

Did(t, ev, cmd, out) == [task |-> t, ev |-> ev, cmd |-> cmd, out |-> out]

\* the caller schedules an operation as a task of the event loop
Schedule ==
    /\ \E t \in Tasks :
         /\ tasks[t].at = "new"
         /\ tasks' = [tasks EXCEPT ![t] = [at |-> "ready", i |-> 0]]
    /\ UNCHANGED <<sock, running, wire>>
    /\ UNCHANGED clientvars

\* the event loop, which runs nothing, runs a task that is ready to go on
Dispatch ==
    /\ running = "none"
    /\ \E t \in Tasks :
         /\ tasks[t].at \notin {"new", "ended"}
         /\ running' = t
    /\ UNCHANGED <<sock, tasks, wire>>
    /\ UNCHANGED clientvars

\* a caller opens the transport while no task runs
TaskConnectionOpen ==
    /\ running = "none"
    /\ \E opens \in BOOLEAN :
         sock' = connection("open", sock, persistence, opens).sock
    /\ UNCHANGED <<tasks, running, wire>>
    /\ UNCHANGED clientvars

\* the running task begins: check_port and, when the port is open,
\* connection("close", ...) (api.py 202-210, 373-388)
TaskProbe ==
    /\ running \in Tasks
    /\ tasks[running].at = "ready"
    /\ \E outcome \in ProbeOutcomes :
         LET p == check_port(outcome)
             c == connection("close", sock, persistence, FALSE)
         IN IF p.raised \/ ~p.is_open
            THEN /\ MoveTo(running, "ended", 0)
                 /\ wire' = Append(wire, Did(running, "probe", "", outcome))
                 /\ sock' = sock
            ELSE /\ MoveTo(running, "send", 1)
                 /\ wire' = wire \o <<Did(running, "probe", "", outcome),
                                      Did(running, "close", "", c.resp)>>
                 /\ sock' = c.sock
    /\ UNCHANGED clientvars

\* the running task writes its command (api.py 316): the write raises on a
\* connection that is not open, and may raise on one that is
TaskSend ==
    /\ running \in Tasks
    /\ tasks[running].at = "send"
    /\ LET i == tasks[running].i
           cmd == Commands(running)[i]
       IN \E w \in (IF sock = "Open" THEN BOOLEAN ELSE {FALSE}) :
            /\ wire' = Append(wire, Did(running, "send", cmd, IF w THEN "ok" ELSE "error"))
            /\ IF w THEN MoveTo(running, "read", i) ELSE AfterCommand(running, i)
    /\ UNCHANGED sock
    /\ UNCHANGED clientvars

\* the running task reads the response to its command (api.py 325); in
\* async_get_data the merge that follows may raise and end the call
TaskRead ==
    /\ running \in Tasks
    /\ tasks[running].at = "read"
    /\ LET i == tasks[running].i
           cmd == Commands(running)[i]
       IN /\ wire' = Append(wire, Did(running, "read", cmd, ""))
          /\ \E exc \in (IF running = "get_data" THEN BOOLEAN ELSE {FALSE}) :
               IF exc THEN MoveTo(running, "final", 0) ELSE AfterCommand(running, i)
    /\ UNCHANGED sock
    /\ UNCHANGED clientvars

\* the finally clause of the running task: connection("close", ...)
\* (api.py 284-288, 421-425)
TaskFinally ==
    /\ running \in Tasks
    /\ tasks[running].at = "final"
    /\ LET c == connection("close", sock, persistence, FALSE)
       IN /\ sock' = c.sock
          /\ wire' = Append(wire, Did(running, "close", "", c.resp))
    /\ MoveTo(running, "ended", 0)
    /\ UNCHANGED clientvars

NextTasks ==
    \/ Schedule
    \/ Dispatch
    \/ TaskConnectionOpen
    \/ TaskProbe
    \/ TaskSend
    \/ TaskRead
    \/ TaskFinally

SpecTasks == Init /\ [][NextTasks]_vars

----------------------------------------------------------------------------
(* Properties *)

\* operation name has ended and its caller holds the result
Ended(name) == pc = "done" /\ op = name

\* no command was written to the transport during the operation
NoCommandSent == \A i \in 1..Len(log) : log[i].ev # "write"

\* the round trip of cmd returned text that was decoded
Decoded(cmd) ==
    \E i \in 1..Len(log) : log[i].ev = "read" /\ log[i].cmd = cmd /\ log[i].out = "text"

ValidState == Lower(state) \in {"on", "off"}

\* C1: when the probe fails at the start of async_get_data, the call raises
\* ConnectionError, the Reading Set is what it was before the call, and no
\* command is sent.
C1_ProbeFailureRaisesReadingsKept ==
    (Ended("get_data") /\ probe = "refused")
        => (result = "ConnectionError" /\ data = data0 /\ NoCommandSent)

\* a probe fails on a client whose Reading Set an earlier fetch has filled
C1_Witness ==
    /\ Ended("get_data")
    /\ probe = "refused"
    /\ result = "ConnectionError"
    /\ data["produced_power"] = Num(3460)

\* C2: every async_get_data that returns False leaves the Reading Set as it
\* was before the call.
C2_NoPartialOverwriteOnFailure ==
    (Ended("get_data") /\ result = "false") => data = data0

\* C3: after a successful probe, async_get_data returns True only when all
\* three round trips (@dat, @sta, @inf) produced a decoded response; a failed
\* write or a read timeout in any of them makes it return False.
C3_SuccessOnlyWhenAllDecoded ==
    (Ended("get_data") /\ probe = "accepted" /\ result = "true")
        => (Decoded("@dat") /\ Decoded("@sta") /\ Decoded("@inf"))

\* C4: the only exception async_get_data lets through is the ConnectionError
\* of a probe that found the port closed.
C4_OnlyUnreachablePropagates ==
    Ended("get_data")
        => \/ result \in {"true", "false"}
           \/ (result = "ConnectionError" /\ probe = "refused")

\* the calculated sensor k is produced p minus sold s (thousandths)
SelfConsumedIs(k, p, s) ==
    /\ data[k].t = "num" /\ data[p].t = "num" /\ data[s].t = "num"
    /\ data[k].n = data[p].n - data[s].n

\* C5: after every async_get_data that returns True, self_consumed_power is
\* produced_power minus sold_power, and the self-consumed energy and each of
\* its three bands is produced minus sold of the same band.
C5_SelfConsumptionAfterSuccess ==
    (Ended("get_data") /\ result = "true")
        => /\ SelfConsumedIs("self_consumed_power", "produced_power", "sold_power")
           /\ SelfConsumedIs("self_consumed_energy", "produced_energy", "sold_energy")
           /\ SelfConsumedIs("self_consumed_energy_f1", "produced_energy_f1",
                             "sold_energy_f1")
           /\ SelfConsumedIs("self_consumed_energy_f2", "produced_energy_f2",
                             "sold_energy_f2")
           /\ SelfConsumedIs("self_consumed_energy_f3", "produced_energy_f3",
                             "sold_energy_f3")

\* a fetch in which the device gave produced 3.456 and sold 2.5, and no
\* energy of band 1 that cycle, has returned True
C5_Witness ==
    /\ Ended("get_data")
    /\ result = "true"
    /\ ~DictHas(dat_parsed.d, "produced_energy_f1")
    /\ data["produced_power"] = Num(3460)
    /\ data["sold_power"] = Num(2500)
    /\ data["self_consumed_power"] = Num(960)

\* C6: every field of the Reading Set, the combined software version
\* included, is a key at all times, and before the first successful fetch
\* every numeric field is 1 and every string field is empty (the static
\* manufacturer and model names apart).
C6_EveryFieldPresentWithDefault ==
    /\ (DOMAIN InitData \cup {"swver"}) \subseteq DOMAIN data
    /\ ~fetched => \A k \in DOMAIN data \ {"manufact", "model"} :
                       data[k] \in {Num(1000), Str("")}

\* the value of the decoded read-back's rel field is the numeral of n
EchoRelIs(n) ==
    /\ ~rel_parsed.none
    /\ \E i \in 1..Len(rel_parsed.d) :
          /\ rel_parsed.d[i][1] = "rel"
          /\ rel_parsed.d[i][2] = (IF n = 1 THEN "1" ELSE "0")

\* C7: telnet_set_relay with state on or off (any letter case) on a reachable
\* device returns True exactly when the rel field of the decoded read-back
\* is the target, 1 for on and 0 for off.
C7_RelayTrueIffEchoIsTarget ==
    (Ended("set_relay") /\ probe = "accepted" /\ ValidState)
        => (result = "true" <=> EchoRelIs(IF Lower(state) = "on" THEN 1 ELSE 0))

\* set_relay("ON") got the echo rel=1 and returned True
C7_Witness ==
    /\ Ended("set_relay")
    /\ state = "ON"
    /\ EchoRelIs(1)
    /\ result = "true"

\* C8: telnet_set_relay with a state other than on or off returns False
\* without any I/O: no probe socket, no connection opened or closed, no
\* command.
C8_InvalidStateNoIO ==
    (Ended("set_relay") /\ ~ValidState)
        => (result = "false" /\ log = <<>> /\ probe_sock = "none")

\* C9: telnet_set_relay with a valid state returns True or False when the
\* device is reachable, and raises ConnectionError when the probe finds it
\* unreachable.
C9_RelayRaisesOnlyWhenUnreachable ==
    (Ended("set_relay") /\ ValidState)
        => /\ probe = "accepted" => result \in {"true", "false"}
           /\ probe = "refused" => result = "ConnectionError"

\* C10: with persistence off the connection is Closed whenever
\* async_get_data or telnet_set_relay has ended, however it ended and
\* whatever the connection was when it began.
C10_ClosedAfterEveryOperation ==
    (pc = "done" /\ ~persistence) => sock = "Closed"

\* C11: with persistence on, an async_get_data that returns True leaves the
\* connection Open, the connection stays Open from one step to the next, and
\* every command written while it is Open goes over that open connection: no
\* step closes or re-opens it.
C11_PersistentConnectionStaysOpen ==
    [][persistence =>
         /\ (pc # "done" /\ pc' = "done" /\ op' = "get_data" /\ result' = "true")
                => sock' = "Open"
         /\ sock = "Open" =>
                /\ sock' = "Open"
                /\ \A i \in (Len(log) + 1)..Len(log') :
                      /\ log'[i].open
                      /\ log'[i].ev = "close" => log'[i].out = "persistence"
      ]_vars

\* the close events of the log are those E4Utelnet.close produced
IsClose(e) == e.ev = "close"

\* C12: E4Utelnet.close has three outcomes, fixed by the connection state
\* and persistence: on a Closed connection it reports already_closed and the
\* state stays Closed; on an Open one without persistence it reports closed
\* and the state becomes Closed; on an Open one with persistence it reports
\* the kept-alive outcome ("persistence") and the state stays Open.  A second
\* close finds the state the first one left and leaves it as it is.
C12_CloseOutcomes ==
    /\ \A i \in 1..Len(log) :
          IsClose(log[i]) =>
             log[i].out = (IF ~log[i].open THEN "already_closed"
                           ELSE IF persistence THEN "persistence" ELSE "closed")
    /\ (log # <<>> /\ IsClose(log[Len(log)])) =>
          sock = (IF log[Len(log)].open /\ persistence THEN "Open" ELSE "Closed")
    /\ \A i, j \in 1..Len(log) :
          (i < j /\ IsClose(log[i]) /\ IsClose(log[j])) =>
             log[j].open = (log[i].open /\ persistence)
    /\ LET once == E4Uclose(sock, persistence)
       IN E4Uclose(once.sock, persistence) =
             [resp |-> IF once.sock = "Open" THEN "persistence" ELSE "already_closed",
              sock |-> once.sock]

\* an operation without persistence closed an open connection on entry and
\* found it closed in its finally clause
C12_Witness ==
    /\ pc = "done"
    /\ ~persistence
    /\ \E i, j \in 1..Len(log) :
          /\ i < j
          /\ IsClose(log[i]) /\ log[i].open /\ log[i].out = "closed"
          /\ IsClose(log[j]) /\ log[j].out = "already_closed"
    /\ sock = "Closed"

\* the last round trip of the running or last operation, the command family
\* it belongs to and the value telnet_get_data returned for it
LastTrip == trips[Len(trips)]

LastCmdMain ==
    IF op = "set_relay" THEN "@rel" ELSE <<"@dat", "@sta", "@inf">>[Len(trips)]

LastParsed ==
    IF op = "set_relay" THEN rel_parsed
    ELSE <<dat_parsed, sta_parsed, inf_parsed>>[Len(trips)]

\* text was read in the last round trip
TextRead == trips # <<>> /\ LastTrip.r = "text" /\ LastTrip.text # <<>>

\* the lines of a response between its header and its footer: 1 leading line
\* is the header when it is a command marker, 2 otherwise, and the last 2
\* lines are the footer
BodyOf(lines) ==
    SubSeq(lines, (IF IsMarker(lines[1]) THEN 1 ELSE 2) + 1, Len(lines) - 2)

\* the pairs of the lines of body from line i on, a line that does not split
\* into key and value left out
RECURSIVE PairsOf(_, _, _, _)
PairsOf(cmd_main, body, i, output) ==
    IF i > Len(body) THEN output
    ELSE LET kv == SplitKV(cmd_main, body[i])
         IN PairsOf(cmd_main, body, i + 1,
                    IF kv.ok
                    THEN DictPut(output, ReplaceSpace(Lower(kv.key)), Strip(kv.value))
                    ELSE output)

\* the body lines that do not split into key and value
Malformed(cmd_main, body) == {i \in 1..Len(body) : ~SplitKV(cmd_main, body[i]).ok}

\* C13: when one body line of a response does not split into key and value,
\* telnet_get_data still returns the pair of every other line, those before
\* and those after it, and the round trip does not count as failed.
C13_MalformedLineSkipped ==
    (TextRead /\ Cardinality(Malformed(LastCmdMain, BodyOf(LastTrip.text))) = 1)
        => /\ ~LastParsed.none
           /\ \A i \in 1..Len(BodyOf(LastTrip.text)) :
                 LET kv == SplitKV(LastCmdMain, BodyOf(LastTrip.text)[i])
                     key == ReplaceSpace(Lower(kv.key))
                 IN kv.ok => /\ DictHas(LastParsed.d, key)
                             /\ DictGet(LastParsed.d, key) = Strip(kv.value)

\* C14: utc_time is never a key of the Reading Set, after construction and
\* after any sequence of fetches.
C14_UtcTimeNeverAKey == "utc_time" \notin DOMAIN data

\* C14, amended: utc_time is a key of the Reading Set from construction on
\* (the empty string is stored under it then), and the merge of a @dat
\* response leaves the value stored under it as it was, whatever utc_time
\* the device returned.
C14_UtcTimeNotMerged ==
    /\ "utc_time" \in DOMAIN data
    /\ (op = "get_data" /\ Len(trips) = 1) => data["utc_time"] = data0["utc_time"]

\* the @dat response held utc_time and alarm_1: alarm_1 was merged, utc_time
\* was not
C14_Witness ==
    /\ op = "get_data"
    /\ Len(trips) = 1
    /\ DictHas(dat_parsed.d, "utc_time")
    /\ DictGet(dat_parsed.d, "utc_time") = "1700000000"
    /\ data["alarm_1"] = Num(0)
    /\ data["utc_time"] = Str("")

\* C15: an async_get_data called again right after one that has ended, with
\* the probe and the three round trips doing what they did in that one,
\* leaves the Reading Set that one left and returns what it returned.
C15_FetchIdempotent ==
    Ended("get_data") =>
        LET again == Fetch(data, sock, persistence, probe, trips)
        IN /\ \A i \in 1..Len(trips) :
                 trips[i].w => connection("close", sock, persistence, FALSE).sock = "Open"
           /\ again.data = data
           /\ again.result = result
           /\ again.sock = sock

\* the second of two fetches that decoded the same three responses has
\* returned True, and the Reading Set is the one the first had left
C15_Witness ==
    /\ Ended("get_data")
    /\ calls = 2
    /\ result = "true"
    /\ Decoded("@dat") /\ Decoded("@sta") /\ Decoded("@inf")
    /\ data["produced_power"] = Num(3460)
    /\ data["sold_energy_f1"] = Num(2500)
    /\ data["sn"] = Str("E4U0001")
    /\ data = data0

\* C16: when async_get_data raises ConnectionError during setup, the user
\* step ends with the form shown again and an error on the host field: the
\* exception does not leave the step and no config entry is created.
C16_UnreachableIsFormError ==
    (flow \notin {"none", "testing"} /\ result = "ConnectionError")
        => (flow = "form" /\ errors # "")

\* C17: for every non-empty response telnet_get_data returns exactly the
\* pairs of the lines between header (1 line when the first line is a
\* command marker, 2 otherwise) and footer (the last 2 lines), keys in lower
\* case with spaces replaced by underscores, values trimmed.
C17_DecodeFraming ==
    TextRead =>
        /\ ~LastParsed.none
        /\ LastParsed.d = PairsOf(LastCmdMain, BodyOf(LastTrip.text), 1, <<>>)

\* C18: check_port has released its socket whenever it has returned or
\* raised, and a refused connection does not make it raise.
C18_ProbeSocketReleased ==
    probe # "none" =>
        /\ probe_sock = "closed"
        /\ probe = "refused" => ~check_port(probe).raised

\* C19: after a successful probe the connection is Open before the first
\* command, and every command is written while the connection is Open.
C19_SendOnlyWhileOpen ==
    /\ pc \in {"get_dat", "rel_set"} => sock = "Open"
    /\ \A i \in 1..Len(log) : log[i].ev = "write" => log[i].open

IsWrite(e) == e.ev = "write"

\* C20: the commands of one async_get_data are @dat, @sta, @inf in that
\* order, each written at most once; the probe comes before the first of
\* them; and the read of a command's response follows its write, before
\* the next command is written.
C20_CommandOrder ==
    op = "get_data" =>
        /\ LET w == SelectSeq(log, IsWrite)
           IN /\ Len(w) <= 3
              /\ \A i \in 1..Len(w) : w[i].cmd = <<"@dat", "@sta", "@inf">>[i]
        /\ \A i \in 1..Len(log) :
              /\ IsWrite(log[i]) => (i > 1 /\ log[1].ev = "probe")
              /\ (IsWrite(log[i]) /\ log[i].out = "ok") =>
                    /\ i < Len(log)
                    /\ log[i + 1].ev = "read"
                    /\ log[i + 1].cmd = log[i].cmd
              /\ log[i].ev = "read" =>
                    /\ i > 1
                    /\ IsWrite(log[i - 1])
                    /\ log[i - 1].cmd = log[i].cmd

\* a fetch has written the three commands, the @sta read timed out and the
\* other two returned text
C20_Witness ==
    /\ Ended("get_data")
    /\ Len(SelectSeq(log, IsWrite)) = 3
    /\ \E i \in 1..Len(log) : log[i].ev = "read" /\ log[i].cmd = "@sta" /\ log[i].out = "timeout"
    /\ Decoded("@dat") /\ Decoded("@inf")

\* every pair of a parse result that is a number is in the Reading Set as
\* the @sta merge stores it
StaMerged ==
    \A i \in 1..Len(sta_parsed.d) :
       PyFloat(sta_parsed.d[i][2]).ok =>
          data[sta_parsed.d[i][1]] = Num(Round2(PyFloat(sta_parsed.d[i][2]).v))

\* every pair of the @inf parse result is in the Reading Set as a string
InfMerged ==
    \A i \in 1..Len(inf_parsed.d) :
       data[inf_parsed.d[i][1]] = Str(inf_parsed.d[i][2])

\* the call ended at its last round trip with the except clause, and that
\* round trip had returned None: items() was called on None
NoneDereferenced == pc = "done" /\ result = "false" /\ LastParsed.none

\* C21: in async_get_data the @sta result is merged exactly when the @sta
\* round trip returned one, and likewise the @inf result, whatever the @dat
\* round trip returned; a round trip that returned None is never
\* dereferenced.
C21_OwnResultGuardsOwnMerge ==
    (op = "get_data" /\ Len(trips) >= 2) =>
        /\ ~NoneDereferenced
        /\ (Len(trips) = 2 /\ ~sta_parsed.none) => StaMerged
        /\ (Len(trips) = 3 /\ ~inf_parsed.none) => InfMerged

\* round trip i of the call received nothing (no text before the timeout,
\* or an empty text) or text without a line that gives a pair
NothingUsable(i) ==
    /\ trips[i].w
    /\ \/ trips[i].r = "timeout"
       \/ trips[i].r = "text" /\ trips[i].text = <<>>
       \/ /\ trips[i].r = "text"
          /\ PairsOf(<<"@dat", "@sta", "@inf">>[i], BodyOf(trips[i].text), 1, <<>>) = <<>>

\* C22: an async_get_data in which some round trip received nothing, or
\* text without a usable line, reports failure.
C22_EmptyResponseFailsFetch ==
    (Ended("get_data") /\ \E i \in 1..Len(trips) : NothingUsable(i))
        => result = "false"

\* C24: the user step creates the config entry only when the
\* async_get_data it made returned True and the serial number is not empty;
\* when it returned False or the serial number is empty the step shows the
\* form with an error and creates no entry.
C24_EntryOnlyWithSerial ==
    (pc = "done" /\ flow \notin {"none", "testing"} /\ result \in {"true", "false"})
        => IF result = "true" /\ data["sn"] # Str("")
           THEN flow \in {"entry", "aborted"}
           ELSE flow = "form" /\ errors # ""

\* C23: when async_get_data and telnet_set_relay are scheduled together on
\* one event loop, what they do on the shared connection never interleaves:
\* at most one command awaits its response, what one task does lies between
\* nothing the other does, and so no close of one falls between the send
\* and the read of the other.
C23_RoundTripsNeverInterleave ==
    /\ Cardinality({t \in Tasks : tasks[t].at = "read"}) <= 1
    /\ \A i, j, k \in 1..Len(wire) :
          (i < j /\ j < k /\ wire[i].task = wire[k].task) => wire[j].task = wire[i].task
    /\ \A i \in 1..Len(wire) :
          (wire[i].ev = "send" /\ wire[i].out = "ok" /\ i < Len(wire))
             => (wire[i + 1].ev = "read" /\ wire[i + 1].task = wire[i].task)

\* async_get_data has written @sta and is about to read the response while
\* telnet_set_relay, scheduled by the caller, waits for the event loop
C23_Witness ==
    /\ running = "get_data"
    /\ tasks["get_data"] = [at |-> "read", i |-> 2]
    /\ tasks["set_relay"].at = "ready"
    /\ wire[Len(wire)] = Did("get_data", "send", "@sta", "ok")

====
